---- MODULE Spec2Model ----
(***************************************************************************)
(* Model of infra/terraform/modules/api/lambda_placeholder/handler.py: the  *)
(* placeholder lead-capture Lambda handler.  One warm execution environment *)
(* (one imported module) serves a bounded number of invocations, one at a   *)
(* time.  Python values are records tagged with their type in field t.      *)
(***************************************************************************)
EXTENDS Integers, Sequences, FiniteSets, TLC

VARIABLES
    environ,       \* os.environ of the execution environment: name -> string
    logger_level,  \* level of the root logger, set when the module is imported
    log,           \* the records the root logger has emitted, oldest first
    table,         \* items of the DynamoDB table named by DYNAMODB_TABLE_NAME
    bus,           \* events put on the event bus named by EVENT_BUS_NAME
    uuid_draws,    \* number of uuid.uuid4() calls made so far
    clock,         \* last reading of the system clock (datetime.utcnow())
    pc,            \* position of the running invocation inside lambda_handler
    frame,         \* arguments and locals of the running invocation
    history        \* finished invocations: arguments, outcome, emitted lines

vars == <<environ, logger_level, log, table, bus, uuid_draws, clock, pc, frame, history>>

-----------------------------------------------------------------------------
(* Bounds of the model. *)

MaxInvocations == 2

MaxClock == 1

-----------------------------------------------------------------------------
(* Python values. *)

PyNone == [t |-> "NoneType"]

PyDict(items) == [t |-> "dict", items |-> items]

\* A string that is not a JSON text ("" included).
Plain(chars) == [t |-> "str", form |-> "plain", chars |-> chars]

\* The JSON text of the value doc, as json.dumps writes it.
JsonText(doc) == [t |-> "str", form |-> "json", doc |-> doc]

\* A text that opens more than a thousand nested arrays ("[" * 100000),
\* closed properly (well_formed) or not.
Nested(well_formed) == [t |-> "str", form |-> "nested", well_formed |-> well_formed]

\* A local name of lambda_handler that has not been assigned yet.
Unbound == [t |-> "unbound"]

\* bool(v), as `if v:` evaluates it.
Truthy(v) ==
    CASE v.t = "NoneType" -> FALSE
      [] v.t = "dict" -> v.items # {}
      [] v.t = "str" -> (v.form = "plain" => v.chars # "")
      [] OTHER -> TRUE

isinstance_str(v) == v.t = "str"

\* d.get(key) on a dict held as a function from its keys.
dict_get(d, key) == IF key \in DOMAIN d THEN d[key] ELSE PyNone

\* json.loads(s): the decoded value, or the exception it raises.
json_loads(s) ==
    CASE s.form = "json" -> [raised |-> "no", value |-> s.doc]
      [] s.form = "nested" -> [raised |-> "RecursionError"]
      [] OTHER -> [raised |-> "JSONDecodeError"]

json_dumps(v) == JsonText(v)

\* os.environ.get(key, default)
os_environ_get(key, default) ==
    IF key \in DOMAIN environ THEN Plain(environ[key]) ELSE default

\* logging's numeric value of a level name.
LevelNo(name) ==
    CASE name = "DEBUG" -> 10
      [] name = "INFO" -> 20
      [] name = "WARNING" -> 30
      [] name = "ERROR" -> 40

\* logger.isEnabledFor(logging.INFO)
InfoEnabled == LevelNo("INFO") >= LevelNo(logger_level)

\* logger.info(line): the log after the call.
logger_info(lines, line) ==
    IF InfoEnabled THEN Append(lines, line) ELSE lines

\* str(uuid.uuid4()): the value of the n-th draw of the random generator.
\* Draws are told apart by their index (122 random bits: no collisions).
uuid4(n) == [t |-> "str", form |-> "uuid", draw |-> n]

\* datetime.utcnow().isoformat() + "Z" at clock reading now.
Timestamp(now) == [isoformat |-> now, suffix |-> "Z"]

-----------------------------------------------------------------------------
(* Inputs. *)

\* The process environments the function may be deployed with: the table
\* and the bus are always named, ENVIRONMENT and LOG_LEVEL may be unset.
Environs ==
    LET named == [DYNAMODB_TABLE_NAME |-> "leads", EVENT_BUS_NAME |-> "lead-events"]
    IN  { named,
          named @@ [ENVIRONMENT |-> "prod"],
          named @@ [LOG_LEVEL |-> "WARNING"],
          named @@ [ENVIRONMENT |-> "prod", LOG_LEVEL |-> "DEBUG"] }

Lead(name, email) == PyDict({<<"name", name>>, <<"email", email>>, <<"utm_source", "ad">>})

LeadDocs ==
    { Lead("Ann", "ann@example.com"),
      PyDict({<<"name", "Bob">>}),
      Lead("", "not-an-email"),
      PyNone }

\* Values of event["body"].
Bodies ==
    { PyNone, Plain(""), PyDict({}), Lead("Ann", "ann@example.com"),
      Plain("{name:"), Nested(FALSE), Nested(TRUE) }
    \cup { JsonText(d) : d \in LeadDocs }

\* The event dicts: with a "body" key or without one.
Events == { [k \in {} |-> PyNone] } \cup { [body |-> b] : b \in Bodies }

\* The context argument: None, or the runtime's context object.
Contexts == { PyNone, [t |-> "LambdaContext", aws_request_id |-> Plain("req-1")] }

-----------------------------------------------------------------------------
(* lambda_handler, cut where its outcome is decided: after line 64, after   *)
(* the try statement of lines 66-73, and at its return.                     *)

NoFrame ==
    [event |-> Unbound, context |-> Unbound, table_name |-> Unbound,
     event_bus |-> Unbound, environment |-> Unbound, body |-> Unbound,
     log_start |-> 0]

\* The lines the running invocation has emitted so far.
EmittedLines == SubSeq(log, frame.log_start + 1, Len(log))

\* The invocation ends before line 76: no lead_id is bound.  The outcome is
\* what the Lambda runtime receives.
Finish(outcome, lines) ==
    /\ history' = Append(history,
           [event |-> frame.event, context |-> frame.context,
            body |-> frame.body, lead_id |-> Unbound,
            outcome |-> outcome, lines |-> lines])
    /\ frame' = NoFrame
    /\ pc' = "idle"

\* Mutant of _error_response: the status code is not passed on.
_error_response_500(status_code, code, message) ==
    [statusCode |-> 500,
     headers |-> ("Content-Type" :> Plain("application/json")),
     body |-> json_dumps([success |-> FALSE,
                          error |-> [code |-> code, message |-> message]])]

\* _error_response(status_code, code, message) with details = None
_error_response(status_code, code, message) ==
    [statusCode |-> status_code,
     headers |-> ("Content-Type" :> Plain("application/json")),
     body |-> json_dumps([success |-> FALSE,
                          error |-> [code |-> code, message |-> message]])]

\* Mutant of log_level: the default level is WARNING.
log_level_DefaultWarning == os_environ_get("LOG_LEVEL", Plain("WARNING"))

\* Line 42
log_level == os_environ_get("LOG_LEVEL", Plain("INFO"))

\* The module is imported: the root logger gets its level from LOG_LEVEL.
Init ==
    /\ environ \in Environs
    /\ logger_level = log_level.chars
    /\ log = <<>>
    /\ table = {}
    /\ bus = <<>>
    /\ uuid_draws = 0
    /\ clock = 0
    /\ pc = "idle"
    /\ frame = NoFrame
    /\ history = <<>>

\* Lines 47-64: the runtime calls lambda_handler(event, context).
Invoke(event, context) ==
    /\ pc = "idle"
    /\ Len(history) < MaxInvocations
    /\ log' = logger_info(log, [level |-> "INFO", msg |-> "Received event: ",
                                event |-> json_dumps(event)])
    /\ frame' = [NoFrame EXCEPT
           !.event = event,
           !.context = context,
           !.table_name = os_environ_get("DYNAMODB_TABLE_NAME", PyNone),
           !.event_bus = os_environ_get("EVENT_BUS_NAME", PyNone),
           !.environment = os_environ_get("ENVIRONMENT", Plain("dev")),
           !.log_start = Len(log)]
    /\ pc' = "extract"
    /\ UNCHANGED <<environ, logger_level, table, bus, uuid_draws, clock, history>>

\* Mutant of ExtractResult: tests the presence of the key, not its truth.
ExtractResult_KeyTest(event) ==
    IF "body" \in DOMAIN event
    THEN IF isinstance_str(event["body"])
         THEN LET r == json_loads(event["body"])
              IN  CASE r.raised = "no" -> [kind |-> "body", body |-> r.value]
                    [] r.raised = "JSONDecodeError" ->
                         [kind |-> "return",
                          response |-> _error_response(400, "INVALID_JSON",
                                           "Request body must be valid JSON")]
                    [] OTHER -> [kind |-> "raise", exception |-> r.raised]
         ELSE [kind |-> "body", body |-> event["body"]]
    ELSE [kind |-> "body", body |-> PyDict({})]

\* Mutant of ExtractResult: a decoded body without an email is rejected.
ExtractResult_Validating(event) ==
    LET missing(b) == b.t # "dict" \/ ~ \E kv \in b.items : kv[1] = "email"
        checked(b) ==
            IF missing(b)
            THEN [kind |-> "return",
                  response |-> _error_response(400, "VALIDATION_ERROR",
                                   "email is required")]
            ELSE [kind |-> "body", body |-> b]
    IN  IF Truthy(dict_get(event, "body"))
        THEN IF isinstance_str(event["body"])
             THEN LET r == json_loads(event["body"])
                  IN  CASE r.raised = "no" -> checked(r.value)
                        [] r.raised = "JSONDecodeError" ->
                             [kind |-> "return",
                              response |-> _error_response(400, "INVALID_JSON",
                                               "Request body must be valid JSON")]
                        [] OTHER -> [kind |-> "raise", exception |-> r.raised]
             ELSE checked(event["body"])
        ELSE checked(PyDict({}))

\* Lines 66-73: the result of the try statement that extracts the body.
ExtractResult(event) ==
    IF Truthy(dict_get(event, "body"))
    THEN IF isinstance_str(event["body"])
         THEN LET r == json_loads(event["body"])
              IN  CASE r.raised = "no" -> [kind |-> "body", body |-> r.value]
                    [] r.raised = "JSONDecodeError" ->
                         [kind |-> "return",
                          response |-> _error_response(400, "INVALID_JSON",
                                           "Request body must be valid JSON")]
                    [] OTHER -> [kind |-> "raise", exception |-> r.raised]
         ELSE [kind |-> "body", body |-> event["body"]]
    ELSE [kind |-> "body", body |-> PyDict({})]

ExtractBody ==
    /\ pc = "extract"
    /\ LET r == ExtractResult(frame.event)
       IN  IF r.kind = "body"
           THEN /\ frame' = [frame EXCEPT !.body = r.body]
                /\ pc' = "generate"
                /\ UNCHANGED history
           ELSE Finish(r, EmittedLines)
    /\ UNCHANGED <<environ, logger_level, log, table, bus, uuid_draws, clock>>

\* Mutant of ResponseBody: the environment name is written in, not read.
ResponseBody_FixedEnvironment(lead_id, environment, timestamp) ==
    [success |-> TRUE,
     leadId |-> lead_id,
     message |-> "Thank you for your submission",
     _meta |-> [environment |-> Plain("dev"),
                timestamp |-> timestamp,
                placeholder |-> TRUE]]

\* Lines 80-89
ResponseBody(lead_id, environment, timestamp) ==
    [success |-> TRUE,
     leadId |-> lead_id,
     message |-> "Thank you for your submission",
     _meta |-> [environment |-> environment,
                timestamp |-> timestamp,
                placeholder |-> TRUE]]

\* Mutant of NewLeadId: a body seen before gets the identifier it got then.
NewLeadId_Dedup ==
    IF \E k \in 1 .. Len(history) :
           history[k].lead_id # Unbound /\ history[k].body = frame.body
    THEN LET k == CHOOSE k \in 1 .. Len(history) :
                      history[k].lead_id # Unbound /\ history[k].body = frame.body
         IN  history[k].lead_id
    ELSE uuid4(uuid_draws + 1)

\* Line 76: the identifier is the next draw of the random generator.
NewLeadId == uuid4(uuid_draws + 1)

\* Mutant of SuccessResponse: the header always carries the lead id.
SuccessResponse_LeadIdHeader(context, lead_id, response_body) ==
    [statusCode |-> 200,
     headers |-> ("Content-Type" :> Plain("application/json"))
                 @@ ("X-Request-Id" :> lead_id),
     body |-> json_dumps(response_body)]

\* Lines 93-100
SuccessResponse(context, lead_id, response_body) ==
    [statusCode |-> 200,
     headers |-> ("Content-Type" :> Plain("application/json"))
                 @@ ("X-Request-Id" :> IF Truthy(context)
                                       THEN context.aws_request_id ELSE lead_id),
     body |-> json_dumps(response_body)]

\* Lines 75-100: the identifier, the timestamp, the body, the log line, the
\* response.  The clock is read once; it may have advanced since last read.
GenerateLeadLocals ==
    /\ pc = "generate"
    /\ \E now \in clock .. (IF clock < MaxClock THEN clock + 1 ELSE clock) :
         LET lead_id == NewLeadId
             timestamp == Timestamp(now)
             response_body == ResponseBody(lead_id, frame.environment, timestamp)
             created == logger_info(log, [level |-> "INFO", msg |-> "Created lead: ",
                                          lead_id |-> lead_id])
         IN  /\ clock' = now
             /\ uuid_draws' = uuid_draws + 1
             /\ log' = created
             /\ history' = Append(history,
                    [event |-> frame.event, context |-> frame.context,
                     body |-> frame.body, lead_id |-> lead_id,
                     outcome |-> [kind |-> "return",
                                  response |-> SuccessResponse(frame.context,
                                                   lead_id, response_body)],
                     lines |-> SubSeq(created, frame.log_start + 1, Len(created))])
    /\ frame' = NoFrame
    /\ pc' = "idle"

\* Mutant of GenerateLead: the lead is stored and an event is emitted.
GenerateLead_Storing ==
    /\ GenerateLeadLocals
    /\ table' = table \cup {[leadId |-> NewLeadId, lead |-> frame.body]}
    /\ bus' = Append(bus, [detail_type |-> "lead.created", leadId |-> NewLeadId])
    /\ UNCHANGED <<environ, logger_level>>

\* Lines 75-100 touch neither the table nor the bus nor the environment.
GenerateLead ==
    /\ GenerateLeadLocals
    /\ UNCHANGED <<environ, logger_level, table, bus>>

Next ==
    \/ \E event \in Events, context \in Contexts : Invoke(event, context)
    \/ ExtractBody
    \/ GenerateLead

Spec == Init /\ [][Next]_vars

-----------------------------------------------------------------------------
(* Vocabulary of the properties. *)

Invocations == 1 .. Len(history)

Returned(h) == h.outcome.kind = "return"

Response(h) == h.outcome.response

\* The JSON body of the response, decoded.
Decoded(h) == json_loads(Response(h).body).value

Answered(h, status) == Returned(h) /\ Response(h).statusCode = status

\* The body is absent, falsy, not a string, or a string json.loads decodes.
Accepted(event) ==
    LET b == dict_get(event, "body")
    IN  \/ ~ Truthy(b)
        \/ ~ isinstance_str(b)
        \/ json_loads(b).raised = "no"

\* The text follows the JSON grammar.
ValidJSON(s) == s.form = "json" \/ (s.form = "nested" /\ s.well_formed)

IsJsonString(event) ==
    /\ "body" \in DOMAIN event
    /\ isinstance_str(event["body"])
    /\ event["body"].form = "json"

Message200 == "Thank you for your submission"

-----------------------------------------------------------------------------
\* C1: every invocation whose event body is absent, falsy, not a string, or a
\* string that json.loads decodes is answered 200 with success = true, a
\* leadId and the message "Thank you for your submission".
C1_AcceptedBodyAnswered200 ==
    \A i \in Invocations :
        LET h == history[i]
        IN  Accepted(h.event) =>
              /\ Answered(h, 200)
              /\ Decoded(h).success = TRUE
              /\ "leadId" \in DOMAIN Decoded(h)
              /\ Decoded(h).message = Message200

\* One invocation without a body and one with a JSON string body, both 200.
C1_Witness ==
    \E i, j \in Invocations :
        /\ "body" \notin DOMAIN history[i].event
        /\ IsJsonString(history[j].event)
        /\ Answered(history[i], 200)
        /\ Answered(history[j], 200)

\* C2: no validation: any two invocations with accepted bodies get the same
\* statusCode (200), the same success flag and the same message, whatever the
\* bodies hold, and no response ever carries a VALIDATION_ERROR.
C2_NoValidation ==
    /\ \A j \in Invocations : \A i \in 1 .. j :
           LET h == history[i]
               g == history[j]
           IN  (Accepted(h.event) /\ Accepted(g.event)) =>
                 /\ Answered(h, 200) /\ Answered(g, 200)
                 /\ Decoded(h).success = Decoded(g).success
                 /\ Decoded(h).message = Decoded(g).message
    /\ \A i \in Invocations :
           (Returned(history[i]) /\ "error" \in DOMAIN Decoded(history[i])) =>
               Decoded(history[i]).error.code # "VALIDATION_ERROR"

\* A body without an email and a body with a malformed one, both answered 200.
C2_Witness ==
    \E i, j \in Invocations :
        /\ history[i].event = [body |-> JsonText(PyDict({<<"name", "Bob">>}))]
        /\ history[j].event = [body |-> JsonText(Lead("", "not-an-email"))]
        /\ Answered(history[i], 200)
        /\ Answered(history[j], 200)

\* What an outcome is apart from the drawn identifier and the clock reading.
OutcomeShape(h) ==
    IF Answered(h, 200)
    THEN [statusCode |-> 200,
          keys |-> DOMAIN Decoded(h),
          success |-> Decoded(h).success,
          message |-> Decoded(h).message,
          environment |-> Decoded(h)["_meta"].environment,
          placeholder |-> Decoded(h)["_meta"].placeholder,
          header_is_lead_id |-> Response(h).headers["X-Request-Id"] = Decoded(h).leadId]
    ELSE h.outcome

\* C3: no deduplication, no rate limiting: an invocation whose event repeats
\* an earlier one is answered 200 with success = true and a leadId no earlier
\* invocation got, and two invocations with the same arguments have the same
\* outcome however many invocations, of whatever content, came before each.
C3_NoDedupNoRateLimit ==
    /\ \A j \in Invocations : \A i \in 1 .. (j - 1) :
           (history[i].event = history[j].event /\ Accepted(history[j].event)) =>
               /\ Answered(history[j], 200)
               /\ Decoded(history[j]).success = TRUE
               /\ \A k \in 1 .. (j - 1) :
                      Answered(history[k], 200) =>
                          Decoded(history[k]).leadId # Decoded(history[j]).leadId
    /\ \A j \in Invocations : \A i \in 1 .. (j - 1) :
           (history[i].event = history[j].event
               /\ history[i].context = history[j].context) =>
               OutcomeShape(history[i]) = OutcomeShape(history[j])

\* The same lead submitted twice: two 200 answers, two identifiers.
C3_Witness ==
    /\ Len(history) >= 2
    /\ history[1].event = [body |-> JsonText(Lead("Ann", "ann@example.com"))]
    /\ history[2].event = history[1].event
    /\ Answered(history[1], 200)
    /\ Answered(history[2], 200)
    /\ Decoded(history[1]).leadId # Decoded(history[2]).leadId

\* C4: no persistence, no event emission: no step of an invocation, successful
\* or not, changes the lead table, the event bus, the environment or the
\* logger's level.
C4_NoPersistenceNoEmission ==
    [][/\ table' = table
       /\ bus' = bus
       /\ environ' = environ
       /\ logger_level' = logger_level]_vars

\* A successful and a rejected invocation are over; table and bus are empty.
C4_Witness ==
    /\ \E i, j \in Invocations :
           Answered(history[i], 200) /\ Answered(history[j], 400)
    /\ table = {}
    /\ bus = <<>>

\* C5: a body that is a non-empty string and not valid JSON is answered 400
\* with success = false, error.code = "INVALID_JSON", error.message = "Request
\* body must be valid JSON" and no leadId.
C5_InvalidJsonAnswered400 ==
    \A i \in Invocations :
        LET h == history[i]
            b == dict_get(h.event, "body")
        IN  (isinstance_str(b) /\ Truthy(b) /\ ~ ValidJSON(b)) =>
              /\ Answered(h, 400)
              /\ Decoded(h).success = FALSE
              /\ Decoded(h).error.code = "INVALID_JSON"
              /\ Decoded(h).error.message = "Request body must be valid JSON"
              /\ "leadId" \notin DOMAIN Decoded(h)

\* C6: every response returned is 200 or 400; it has success = true, a leadId
\* and no error exactly when it is 200, and success = false, an error with
\* code and message and no leadId exactly when it is 400.
C6_ResponseShapes ==
    \A i \in Invocations :
        LET h == history[i]
            d == Decoded(h)
        IN  Returned(h) =>
              /\ Response(h).statusCode \in {200, 400}
              /\ Response(h).statusCode = 200 <=>
                    (d.success = TRUE /\ "leadId" \in DOMAIN d /\ "error" \notin DOMAIN d)
              /\ Response(h).statusCode = 400 <=>
                    (/\ d.success = FALSE
                     /\ "error" \in DOMAIN d
                     /\ {"code", "message"} \subseteq DOMAIN d.error
                     /\ "leadId" \notin DOMAIN d)

\* A 200 and a 400 have both been returned.
C6_Witness ==
    \E i, j \in Invocations :
        /\ Answered(history[i], 200)
        /\ Answered(history[j], 400)
        /\ "error" \in DOMAIN Decoded(history[j])

\* C7: every success response carries _meta with placeholder = true and the
\* environment read from ENVIRONMENT ("dev" when unset); _meta holds nothing
\* but these and a reading of the clock, so the body has no part in it.
C7_MetaFromEnvironment ==
    \A i \in Invocations :
        LET h == history[i]
        IN  Answered(h, 200) =>
              LET meta == Decoded(h)["_meta"]
              IN  /\ DOMAIN meta = {"environment", "timestamp", "placeholder"}
                  /\ meta.placeholder = TRUE
                  /\ meta.environment =
                         (IF "ENVIRONMENT" \in DOMAIN environ
                          THEN Plain(environ["ENVIRONMENT"]) ELSE Plain("dev"))
                  /\ \E now \in 0 .. clock : meta.timestamp = Timestamp(now)

\* ENVIRONMENT is set, and two different bodies have been answered 200.
C7_Witness ==
    /\ "ENVIRONMENT" \in DOMAIN environ
    /\ \E i, j \in Invocations :
           /\ history[i].event # history[j].event
           /\ IsJsonString(history[i].event)
           /\ Answered(history[i], 200)
           /\ Answered(history[j], 200)

HasLine(lines, msg) == \E k \in 1 .. Len(lines) : lines[k].msg = msg

ReceivedFirst(lines) == Len(lines) >= 1 /\ lines[1].msg = "Received event: "

\* C8 as stated: every invocation has emitted the "Received event" line before
\* its response is decided, and a lead id is generated and "Created lead"
\* emitted exactly when the invocation ends with 200.
C8_LinesAlwaysEmitted ==
    /\ pc # "idle" => ReceivedFirst(EmittedLines)
    /\ \A i \in Invocations :
           LET h == history[i]
           IN  /\ ReceivedFirst(h.lines)
               /\ Answered(h, 200) <=> HasLine(h.lines, "Created lead: ")
               /\ Answered(h, 200) <=> h.lead_id # Unbound

\* LOG_LEVEL is unset or names a level that lets INFO records through.
AdmitsInfo ==
    "LOG_LEVEL" \in DOMAIN environ => environ["LOG_LEVEL"] \in {"DEBUG", "INFO"}

\* The lines of an invocation that generated lead_id (Unbound: none).
ExpectedLines(event, lead_id) ==
    IF ~ AdmitsInfo
    THEN <<>>
    ELSE <<[level |-> "INFO", msg |-> "Received event: ", event |-> json_dumps(event)]>>
         \o (IF lead_id = Unbound
             THEN <<>>
             ELSE <<[level |-> "INFO", msg |-> "Created lead: ", lead_id |-> lead_id]>>)

\* C8, amended: when LOG_LEVEL is unset or DEBUG or INFO, "Received event" is
\* emitted before the response is decided and "Created lead" follows exactly
\* when the invocation ends with 200; at a stricter level no line is emitted.
\* At every level a lead id is generated exactly when the invocation ends
\* with 200: while the body is being extracted, and in a rejected or failed
\* invocation, no identifier has been drawn or logged.
C8_LinesWhenInfoAdmitted ==
    /\ pc # "idle" => EmittedLines = ExpectedLines(frame.event, Unbound)
    /\ \A i \in Invocations :
           LET h == history[i]
           IN  /\ h.lines = ExpectedLines(h.event, h.lead_id)
               /\ Answered(h, 200) <=> h.lead_id # Unbound
               /\ Answered(h, 200) => h.lead_id = Decoded(h).leadId
    /\ uuid_draws = Cardinality({i \in Invocations : Answered(history[i], 200)})

\* INFO is let through; one invocation ended with 200 and logged both lines,
\* one was rejected with INVALID_JSON and logged one.
C8_Witness ==
    /\ AdmitsInfo
    /\ \E i, j \in Invocations :
           /\ Answered(history[i], 200)
           /\ Len(history[i].lines) = 2
           /\ Answered(history[j], 400)
           /\ Len(history[j].lines) = 1

\* C9: the X-Request-Id header of a success response is
\* context.aws_request_id when a context was passed and the body's leadId
\* when it was not; a 400 response has no X-Request-Id header.
C9_RequestIdHeader ==
    \A i \in Invocations :
        LET h == history[i]
        IN  /\ Answered(h, 200) =>
                /\ "X-Request-Id" \in DOMAIN Response(h).headers
                /\ Response(h).headers["X-Request-Id"] =
                       (IF h.context = PyNone
                        THEN Decoded(h).leadId ELSE h.context.aws_request_id)
            /\ Answered(h, 400) => "X-Request-Id" \notin DOMAIN Response(h).headers

\* A 200 returned without a context and a 400 returned with one.
C9_Witness ==
    \E i, j \in Invocations :
        /\ Answered(history[i], 200)
        /\ history[i].context = PyNone
        /\ Answered(history[j], 400)
        /\ history[j].context # PyNone
====
